---- MODULE Spec2Model ----
(***************************************************************************)
(* A model of spaad_internal/src/entangle.rs: the `entangle` macro, which  *)
(* splits a struct into a Handle and an Actor living in `__<Name>Actor`,   *)
(* mirrors a handler impl into a numbered `__impl<k>` module, and rewrites *)
(* the self type of a trait impl.                                          *)
(*                                                                         *)
(* Syntax trees are records.  Identifiers are strings, so format_ident!    *)
(* is string concatenation.  A macro invocation returns a result record    *)
(* [expanded, diags, panicked]: the emitted tokens, the diagnostics it     *)
(* sent to the compiler, and whether it ended in a panic (unreachable!,    *)
(* unimplemented!), in which case nothing is emitted.                      *)
(***************************************************************************)
EXTENDS Integers, Sequences, FiniteSets, TLC

\* Bounds of the model.
NumProcs == 2
MaxInvocations == 3
MaxFields == 2
MaxItems == 2

VARIABLES
    IMPL_BLOCK_NUM,   \* the static AtomicUsize of line 13
    pc,        \* per invocation slot: "idle", "naming" (before line 212), "emitting" (after it)
    frame,     \* per slot: the impl block and the impl number of the running entangle_handlers_impl
    result,    \* per slot: the input and the result of the slot's last finished invocation
    started,   \* number of invocations begun so far
    history    \* the fetch_add calls and the finished invocations, in the order they happened

vars == <<IMPL_BLOCK_NUM, pc, frame, result, started, history>>

----------------------------------------------------------------------------
\* syn::Visibility (syn 1.x): Public, Crate, Restricted(in_token, path), Inherited.

Vis(kind, in_token, path) == [kind |-> kind, in_token |-> in_token, path |-> path]

VisPublic == Vis("Public", FALSE, <<>>)

VisCrate == Vis("Crate", FALSE, <<>>)

VisInherited == Vis("Inherited", FALSE, <<>>)

VisRestricted(in_token, path) == Vis("Restricted", in_token, path)

\* The value built on lines 48-49 and 65-77: `pub(super)`, no `in` token.
PubSuper == VisRestricted(FALSE, <<"super">>)

\* A compiler diagnostic: its level, its text and the node whose span it is reported at.
Diag(level, message, at) == [level |-> level, message |-> message, at |-> at]

VisibilityWarnsAnyRestricted(vis) == vis.kind = "Restricted"

\* Lines 51-54: the condition under which the warning is emitted.
VisibilityWarns(vis) == vis.kind = "Restricted" /\ vis.path[1] # "self"

NormalizedVisibilityInheritedOnly(vis) ==
    IF vis.kind = "Inherited" THEN PubSuper ELSE vis

\* Lines 64-78: the visibility the function leaves behind.
NormalizedVisibility(vis) ==
    IF vis.kind \in {"Inherited", "Restricted"} THEN PubSuper ELSE vis

\* set_visibility_min_pub_super: the visibility it leaves and the diagnostics it emits.
set_visibility_min_pub_super(vis) ==
    [vis   |-> NormalizedVisibility(vis),
     diags |-> IF VisibilityWarns(vis)
               THEN <<Diag("warning", "will be converted to pub(super)", "vis")>>
               ELSE <<>>]

----------------------------------------------------------------------------
\* Paths and types.

Segment(ident, arguments) == [ident |-> ident, arguments |-> arguments]

NoArguments == ""

\* syn::Type: Path(path) or another kind (Tuple, Reference), which has no path.
TypePath(segments) == [kind |-> "Path", segments |-> segments]

TypeOther(kind) == [kind |-> kind, segments |-> <<>>]

\* format_ident!("__{}Actor", name), lines 91, 181, 255.
ActorModName(name) == "__" \o name \o "Actor"

\* format_ident!("__impl{}", k), line 212.
ImplModName(k) == "__impl" \o ToString(k)

\* get_name_from_path: the identifier of the last segment.
get_name_from_path(segments) == segments[Len(segments)].ident

\* get_name: the name, or an error diagnostic followed by unreachable!().
get_name(block) ==
    IF block.self_ty.kind = "Path"
    THEN [ok |-> TRUE, name |-> get_name_from_path(block.self_ty.segments), diags |-> <<>>]
    ELSE [ok |-> FALSE, name |-> "",
          diags |-> <<Diag("error", "self type must be a struct", "self_ty")>>]

TransformActorPathOtherName(name, segments) ==
    LET last == segments[Len(segments)]
    IN  SubSeq(segments, 1, Len(segments) - 1)
            \o <<Segment("__" \o name \o "_Actor", NoArguments)>> \o <<last>>

TransformActorPathAfterLast(name, segments) ==
    segments \o <<Segment(ActorModName(name), NoArguments)>>

\* transform_actor_path: pop the last segment, push the actor module, push the last again.
transform_actor_path(name, segments) ==
    LET last == segments[Len(segments)]
    IN  SubSeq(segments, 1, Len(segments) - 1)
            \o <<Segment(ActorModName(name), NoArguments)>> \o <<last>>

\* get_actor_name: quote!(#mod_name::#name).
get_actor_name(block) ==
    LET name == get_name(block).name IN <<ActorModName(name), name>>

----------------------------------------------------------------------------
\* Generics and Generics::split_for_impl (lines 92, 208).

NoGenerics == [params |-> <<>>, where_clause |-> ""]

ImplGenerics(generics) == generics.params

TyGenerics(generics) == [j \in 1..Len(generics.params) |-> generics.params[j].ident]

----------------------------------------------------------------------------
\* Results of one macro invocation.

NoTokens == [tag |-> "None"]

Emitted(tokens, diags) == [expanded |-> tokens, diags |-> diags, panicked |-> FALSE]

\* A panic inside the macro: the diagnostics already sent stay, nothing is expanded.
Panicked(diags) == [expanded |-> NoTokens, diags |-> diags, panicked |-> TRUE]

RECURSIVE ConcatAll(_)
ConcatAll(seqs) ==
    IF seqs = <<>> THEN <<>> ELSE Head(seqs) \o ConcatAll(Tail(seqs))

\* ::spaad::export::xtra::Address<#actor_mod::#ident#ty_generics>, lines 101, 107, 113.
AddressType(actor_mod, ident, ty_generics) ==
    [address_of |-> <<actor_mod, ident>>, arguments |-> ty_generics]

\* entangle_struct.
entangle_struct(struct_def) ==
    LET ident == struct_def.ident
        vis == struct_def.vis
        actor_mod == ActorModName(ident)
        impl_generics == ImplGenerics(struct_def.generics)
        ty_generics == TyGenerics(struct_def.generics)
        where_clause == struct_def.generics.where_clause
        normalized == [j \in 1..Len(struct_def.fields) |->
                          set_visibility_min_pub_super(struct_def.fields[j].vis)]
        fields == [j \in 1..Len(struct_def.fields) |->
                      [struct_def.fields[j] EXCEPT !.vis = normalized[j].vis]]
        address == AddressType(actor_mod, ident, ty_generics)
    IN  Emitted(
            [tag |-> "Struct",
             handle |-> [derive |-> "Clone", vis |-> vis, ident |-> ident,
                         impl_generics |-> impl_generics, where_clause |-> where_clause,
                         addr |-> address],
             accessors |-> [impl_generics |-> impl_generics,
                            self_ty |-> <<Segment(ident, ty_generics)>>,
                            where_clause |-> where_clause,
                            fns |-> <<[vis |-> vis, ident |-> "into_address",
                                       receiver |-> "self", output |-> address],
                                      [vis |-> vis, ident |-> "address",
                                       receiver |-> "&self", output |-> address]>>],
             actor |-> [vis |-> vis, mod_name |-> actor_mod, attrs |-> struct_def.attrs,
                        item |-> [vis |-> VisPublic, ident |-> ident,
                                  impl_generics |-> impl_generics,
                                  where_clause |-> where_clause,
                                  fields |-> fields,
                                  semi_token |-> struct_def.semi_token]]],
            ConcatAll([j \in 1..Len(normalized) |-> normalized[j].diags]))

EntangleImplDiagsSilent(impl_block) == <<>>

\* entangle_impl, lines 128-134: the error emitted for a self type that is no path.
\* The function does not return there: it goes on to the match on lines 136-139.
EntangleImplDiags(impl_block) ==
    IF impl_block.self_ty.kind # "Path"
    THEN <<Diag("error", "can only be called on impls of an actor struct", "impl_block")>>
    ELSE <<>>

\* entangle_trait_impl.
entangle_trait_impl(trait_impl) ==
    IF ~get_name(trait_impl).ok
    THEN Panicked(get_name(trait_impl).diags)
    ELSE Emitted(
            [tag |-> "TraitImpl",
             block |-> [trait_impl EXCEPT !.self_ty.segments =
                           transform_actor_path(get_name(trait_impl).name,
                                              trait_impl.self_ty.segments)]],
            <<>>)

\* A result with the diagnostics emitted before it was computed.
AfterDiags(diags, r) == [r EXCEPT !.diags = diags \o r.diags]

\* transform::transform_method (src/entangle/transform.rs is not among the sources):
\* the method with its signature kept and its body replaced by the forwarding call.
transform_method(impl_block, method) == [method EXCEPT !.body = "forward"]

IsMethod(item) == item.kind = "Method"

TransformItemsMethodsOnly(impl_block, items) ==
    LET methods == SelectSeq(items, IsMethod)
    IN  [ok     |-> \A j \in 1..Len(items) :
                       items[j].kind \in {"Const", "Type", "Macro", "Verbatim", "Method"},
         tokens |-> [j \in 1..Len(methods) |-> transform_method(impl_block, methods[j])]]

\* transform_items: one token stream per item; an item of another kind is unimplemented!().
transform_items(impl_block, items) ==
    [ok     |-> \A j \in 1..Len(items) :
                   items[j].kind \in {"Const", "Type", "Macro", "Verbatim", "Method"},
     tokens |-> [j \in 1..Len(items) |->
                   IF items[j].kind = "Method"
                   THEN transform_method(impl_block, items[j])
                   ELSE items[j]]]

NormalizeItemNotMethods(item) ==
    IF item.kind \in {"Const", "Type"}
    THEN set_visibility_min_pub_super(item.vis)
    ELSE [vis |-> item.vis, diags |-> <<>>]

\* Lines 214-222: the visibility of the Const, Method and Type items is normalised.
NormalizeItem(item) ==
    IF item.kind \in {"Const", "Method", "Type"}
    THEN set_visibility_min_pub_super(item.vis)
    ELSE [vis |-> item.vis, diags |-> <<>>]

\* entangle_handlers_impl, lines 186-210: everything computed before the impl number.
HandlersLocals(handlers_impl) ==
    LET name == get_name(handlers_impl).name
        segments == handlers_impl.self_ty.segments
        wrapper == [segments EXCEPT ![Len(segments)].ident = name]
        actor == transform_actor_path(name, segments)
        actor_path == [actor EXCEPT ![Len(actor)].arguments = NoArguments]
    IN  [name |-> name, wrapper |-> wrapper, actor_path |-> actor_path,
         actor |-> TypePath(actor)]

\* Lines 209 and 214-222: the Actor-side items and the warnings their normalisation emits.
ActorItems(handlers_impl) ==
    LET items == handlers_impl.items
        normalized == [j \in 1..Len(items) |-> NormalizeItem(items[j])]
    IN  [items |-> [j \in 1..Len(items) |-> [items[j] EXCEPT !.vis = normalized[j].vis]],
         diags |-> ConcatAll([j \in 1..Len(items) |-> normalized[j].diags])]

\* Lines 224-237: the tokens quote! builds, with impl_num the value fetched on line 212.
HandlersTokens(handlers_impl, impl_num) ==
    LET locals == HandlersLocals(handlers_impl)
        impl_generics == ImplGenerics(handlers_impl.generics)
        where_clause == handlers_impl.generics.where_clause
    IN  [tag |-> "HandlersImpl",
         mod_name |-> ImplModName(impl_num),
         uses |-> <<<<Segment("super", NoArguments), Segment("*", NoArguments)>>,
                    locals.actor_path>>,
         actor_impl |-> [impl_generics |-> impl_generics, self_ty |-> locals.actor,
                         where_clause |-> where_clause,
                         items |-> ActorItems(handlers_impl).items],
         handle_impl |-> [impl_generics |-> impl_generics,
                          self_ty |-> <<Segment("super", NoArguments)>> \o locals.wrapper,
                          where_clause |-> where_clause,
                          items |-> transform_items(handlers_impl, handlers_impl.items).tokens]]

HandlersEmitPartial(handlers_impl, impl_num) ==
    Emitted(HandlersTokens(handlers_impl, impl_num), ActorItems(handlers_impl).diags)

\* entangle_handlers_impl, lines 214-237: the items are transformed while quote! runs,
\* after the warnings, and an item of another kind panics there.
HandlersEmit(handlers_impl, impl_num) ==
    IF ~transform_items(handlers_impl, handlers_impl.items).ok
    THEN Panicked(ActorItems(handlers_impl).diags)
    ELSE Emitted(HandlersTokens(handlers_impl, impl_num), ActorItems(handlers_impl).diags)

----------------------------------------------------------------------------
\* The inputs: what the parser (EntangledItem::parse) can hand to entangle.

Names == {"Counter", "Gauge"}

Visibilities ==
    {VisPublic, VisCrate, VisInherited,
     VisRestricted(FALSE, <<"self">>), VisRestricted(FALSE, <<"super">>),
     VisRestricted(FALSE, <<"crate">>),
     VisRestricted(TRUE, <<"crate", "a">>), VisRestricted(TRUE, <<"self", "a">>)}

OneGeneric == [params |-> <<[ident |-> "T", bound |-> "Send"]>>, where_clause |-> ""]

\* The generics a type of this name is declared with.
GenericsOf(name) == IF name = "Gauge" THEN OneGeneric ELSE NoGenerics

Field(vis, ident, ty) == [vis |-> vis, ident |-> ident, ty |-> ty]

Fields ==
    {Field(v, "count", "i64") : v \in Visibilities}
        \cup {Field(v, "label", "String") : v \in Visibilities}

SeqsUpTo(S, n) == UNION {[1..m -> S] : m \in 0..n}

ItemStruct(attrs, vis, ident, generics, fields) ==
    [tag |-> "Struct", attrs |-> attrs, vis |-> vis, ident |-> ident,
     generics |-> generics, fields |-> fields, semi_token |-> FALSE]

StructInputs ==
    {ItemStruct(<<"derive(Debug)">>, v, n, GenericsOf(n), fs) :
        v \in {VisInherited, VisPublic}, n \in Names, fs \in SeqsUpTo(Fields, MaxFields)}

ImplItem(kind, vis, ident, sig, body) ==
    [kind |-> kind, vis |-> vis, ident |-> ident, sig |-> sig, body |-> body]

\* "Other" stands for a variant of the non-exhaustive enum syn::ImplItem besides the
\* five the source names.
ImplItems ==
    {ImplItem("Method", v, "get", "(&self) -> i64", "self.count") : v \in Visibilities}
        \cup {ImplItem("Const", v, "MAX", "i64", "10") :
                v \in {VisInherited, VisRestricted(FALSE, <<"crate">>)}}
        \cup {ImplItem("Type", v, "Out", "", "i64") : v \in {VisInherited, VisPublic}}
        \cup {ImplItem("Macro", VisInherited, "", "", "m!()"),
              ImplItem("Verbatim", VisInherited, "", "", "tokens"),
              ImplItem("Other", VisInherited, "", "", "")}

SelfTypes ==
    {TypeOther("Tuple"), TypeOther("Reference")}
        \cup {TypePath(prefix \o <<Segment(n, a)>>) :
                prefix \in {<<>>, <<Segment("m", NoArguments)>>},
                n \in Names, a \in {NoArguments, "<T>"}}

ItemImpl(attrs, generics, trait_, self_ty, items) ==
    [tag |-> "Impl", attrs |-> attrs, generics |-> generics, trait_ |-> trait_,
     self_ty |-> self_ty, items |-> items]

\* The generics of an impl block: those its self type's arguments use.
ImplGenericsFor(self_ty) ==
    IF self_ty.kind = "Path" /\ self_ty.segments[Len(self_ty.segments)].arguments # NoArguments
    THEN OneGeneric ELSE NoGenerics

NoTrait == ""

ImplInputs ==
    {ItemImpl(<<"cfg(test)">>, ImplGenericsFor(ty), tr, ty, items) :
        tr \in {NoTrait, "Actor"}, ty \in SelfTypes, items \in SeqsUpTo(ImplItems, MaxItems)}

\* The inputs of the runs with several invocations: one of each shape.
PrivateMethod == ImplItem("Method", VisInherited, "get", "(&self) -> i64", "self.count")

CrateMethod ==
    ImplItem("Method", VisRestricted(FALSE, <<"crate">>), "get", "(&self) -> i64", "self.count")

OtherItem == ImplItem("Other", VisInherited, "", "", "")

RunStructs ==
    {ItemStruct(<<>>, VisPublic, "Counter", NoGenerics, <<Field(VisInherited, "count", "i64")>>)}

RunImpls ==
    {ItemImpl(<<>>, OneGeneric, NoTrait,
              TypePath(<<Segment("m", NoArguments), Segment("Counter", "<T>")>>),
              <<PrivateMethod>>),
     ItemImpl(<<>>, NoGenerics, NoTrait, TypePath(<<Segment("Gauge", NoArguments)>>),
              <<CrateMethod, OtherItem>>),
     ItemImpl(<<>>, NoGenerics, NoTrait, TypeOther("Tuple"), <<PrivateMethod>>),
     ItemImpl(<<>>, OneGeneric, "Actor", TypePath(<<Segment("Gauge", "<T>")>>),
              <<PrivateMethod>>)}

----------------------------------------------------------------------------
\* The state machine: NumProcs slots, each running one invocation of entangle at a time.

Procs == 1..NumProcs

NoInput == [tag |-> "None"]

NoFrame == [block |-> NoInput, impl_num |-> -1]

Finished(input, r) ==
    [input |-> input, expanded |-> r.expanded, diags |-> r.diags, panicked |-> r.panicked]

FetchEvent(p, k) ==
    [ev |-> "fetch", proc |-> p, tag |-> "HandlersImpl", k |-> k, mod_name |-> "",
     panicked |-> FALSE]

DoneEvent(p, tag, k, r) ==
    [ev |-> "done", proc |-> p, tag |-> tag, k |-> k,
     mod_name |-> IF r.expanded.tag = "HandlersImpl" THEN r.expanded.mod_name ELSE "",
     panicked |-> r.panicked]

\* static IMPL_BLOCK_NUM: AtomicUsize = AtomicUsize::new(0), and no invocation yet.
Init ==
    /\ IMPL_BLOCK_NUM = 0
    /\ pc = [p \in Procs |-> "idle"]
    /\ frame = [p \in Procs |-> NoFrame]
    /\ result = [p \in Procs |-> Finished(NoInput, Emitted(NoTokens, <<>>))]
    /\ started = 0
    /\ history = <<>>

FetchAddNothing(c) == c

\* The value fetch_add(1, SeqCst) stores.  The counter is a usize; its wrap-around
\* lies beyond any number of invocations the bounds allow.
FetchAdd(c) == c + 1

EntangleStructCallConsumes(p, s) ==
    /\ pc[p] = "idle"
    /\ started' = started + 1
    /\ result' = [result EXCEPT ![p] = Finished(s, entangle_struct(s))]
    /\ history' = Append(history, DoneEvent(p, "Struct", -1, entangle_struct(s)))
    /\ IMPL_BLOCK_NUM' = IMPL_BLOCK_NUM + 1
    /\ UNCHANGED <<pc, frame>>

\* entangle on a struct: parse, entangle_struct, return.
EntangleStructCall(p, s) ==
    /\ pc[p] = "idle"
    /\ started' = started + 1
    /\ result' = [result EXCEPT ![p] = Finished(s, entangle_struct(s))]
    /\ history' = Append(history, DoneEvent(p, "Struct", -1, entangle_struct(s)))
    /\ UNCHANGED <<IMPL_BLOCK_NUM, pc, frame>>

\* entangle on an impl block with a trait: entangle_impl, entangle_trait_impl, return.
EntangleTraitImplCall(p, b) ==
    /\ pc[p] = "idle"
    /\ b.trait_ # NoTrait
    /\ started' = started + 1
    /\ LET r == AfterDiags(EntangleImplDiags(b), entangle_trait_impl(b))
       IN  /\ result' = [result EXCEPT ![p] = Finished(b, r)]
           /\ history' = Append(history, DoneEvent(p, "TraitImpl", -1, r))
    /\ UNCHANGED <<IMPL_BLOCK_NUM, pc, frame>>

\* entangle on an impl block without a trait, up to line 211: entangle_impl, then
\* entangle_handlers_impl, whose get_name panics on a self type that is no path.
EntangleHandlersImplEnter(p, b) ==
    /\ pc[p] = "idle"
    /\ b.trait_ = NoTrait
    /\ started' = started + 1
    /\ IF get_name(b).ok
       THEN /\ pc' = [pc EXCEPT ![p] = "naming"]
            /\ frame' = [frame EXCEPT ![p] = [block |-> b, impl_num |-> -1]]
            /\ UNCHANGED <<result, history>>
       ELSE LET r == AfterDiags(EntangleImplDiags(b), Panicked(get_name(b).diags))
            IN  /\ result' = [result EXCEPT ![p] = Finished(b, r)]
                /\ history' = Append(history, DoneEvent(p, "HandlersImpl", -1, r))
                /\ UNCHANGED <<pc, frame>>
    /\ UNCHANGED IMPL_BLOCK_NUM

\* Line 212: IMPL_BLOCK_NUM.fetch_add(1, Ordering::SeqCst), one atomic step.
FetchImplNum(p) ==
    /\ pc[p] = "naming"
    /\ frame' = [frame EXCEPT ![p].impl_num = IMPL_BLOCK_NUM]
    /\ IMPL_BLOCK_NUM' = FetchAdd(IMPL_BLOCK_NUM)
    /\ history' = Append(history, FetchEvent(p, IMPL_BLOCK_NUM))
    /\ pc' = [pc EXCEPT ![p] = "emitting"]
    /\ UNCHANGED <<result, started>>

\* Lines 214-237, and the return to entangle.
EntangleHandlersImplFinish(p) ==
    /\ pc[p] = "emitting"
    /\ LET r == HandlersEmit(frame[p].block, frame[p].impl_num)
       IN  /\ result' = [result EXCEPT ![p] = Finished(frame[p].block, r)]
           /\ history' = Append(history, DoneEvent(p, "HandlersImpl", frame[p].impl_num, r))
    /\ pc' = [pc EXCEPT ![p] = "idle"]
    /\ frame' = [frame EXCEPT ![p] = NoFrame]
    /\ UNCHANGED <<IMPL_BLOCK_NUM, started>>

\* A slot takes up a new invocation while fewer than limit have begun.
CanBegin(p, limit) == pc[p] = "idle" /\ started < limit

Next ==
    \E p \in Procs :
        \/ CanBegin(p, MaxInvocations) /\ \E s \in RunStructs : EntangleStructCall(p, s)
        \/ CanBegin(p, MaxInvocations) /\ \E b \in RunImpls : EntangleTraitImplCall(p, b)
        \/ CanBegin(p, MaxInvocations) /\ \E b \in RunImpls : EntangleHandlersImplEnter(p, b)
        \/ FetchImplNum(p)
        \/ EntangleHandlersImplFinish(p)

Spec == Init /\ [][Next]_vars

\* One invocation, on any input of the bounded universe.
NextOne ==
    \/ CanBegin(1, 1) /\ \E s \in StructInputs : EntangleStructCall(1, s)
    \/ CanBegin(1, 1) /\ \E b \in ImplInputs : EntangleTraitImplCall(1, b)
    \/ CanBegin(1, 1) /\ \E b \in ImplInputs : EntangleHandlersImplEnter(1, b)
    \/ FetchImplNum(1)
    \/ EntangleHandlersImplFinish(1)

SpecOne == Init /\ [][NextOne]_vars

----------------------------------------------------------------------------
\* What the properties below speak about.

\* Slot p has finished an invocation.
Ran(p) == result[p].input.tag # "None"

IsFetch(e) == e.ev = "fetch"

\* The fetch_add calls so far, in order.
Fetches == SelectSeq(history, IsFetch)

\* The finished invocations that emitted a numbered module.
EmittedMods == {j \in 1..Len(history) : history[j].ev = "done" /\ history[j].mod_name # ""}

\* An input whose transformation aborts: an impl block whose self type is no path,
\* or a handler impl block holding an item of another kind than the five named.
Malformed(input) ==
    /\ input.tag = "Impl"
    /\ \/ input.self_ty.kind # "Path"
       \/ /\ input.trait_ = NoTrait
          /\ \E j \in 1..Len(input.items) : input.items[j].kind = "Other"

\* C1: the counter-backed naming step never hands out the same value twice: the
\* values fetched grow strictly in the order of the fetches, whatever the interleaving
\* of the invocations, so any two emitted `__impl<k>` modules differ; the counter stays
\* above every value handed out (it is never reset or decremented).
C1_CounterNeverRepeats ==
    /\ \A i, j \in 1..Len(Fetches) : i < j => Fetches[i].k < Fetches[j].k
    /\ \A j \in 1..Len(Fetches) : Fetches[j].k < IMPL_BLOCK_NUM
    /\ \A i, j \in EmittedMods :
          i # j => history[i].mod_name # history[j].mod_name /\ history[i].k # history[j].k

\* Two handler impls are between their fetch and their return at once, and both fetched.
C1_Witness ==
    /\ \A p \in {1, 2} : pc[p] = "emitting"
    /\ Len(Fetches) >= 2
    /\ frame[1].impl_num # frame[2].impl_num

\* C2: from counter 0 the handler impls are numbered 0, 1, 2, ... in the order of
\* their fetches, and each emits the module `__impl<k>` of the k it fetched (the first
\* `__impl0`, the next `__impl1`); the counter equals the number of handler impls that
\* reached the naming step, however many structs and trait impls have been transformed.
C2_ConsecutiveImplNames ==
    /\ IMPL_BLOCK_NUM = Len(Fetches)
    /\ \A j \in 1..Len(Fetches) : Fetches[j].k = j - 1
    /\ \A j \in EmittedMods :
          /\ history[j].mod_name = "__impl" \o ToString(history[j].k)
          /\ history[j].k = 0 => history[j].mod_name = "__impl0"
          /\ history[j].k = 1 => history[j].mod_name = "__impl1"
          /\ \E i \in 1..(j - 1) :
                IsFetch(history[i]) /\ history[i].k = history[j].k
                    /\ history[i].proc = history[j].proc

\* `__impl0` was emitted, then a struct or a trait impl was transformed, then `__impl1`.
C2_Witness ==
    \E i, j, l \in 1..Len(history) :
        /\ i < j /\ j < l
        /\ history[i].mod_name = "__impl0"
        /\ history[j].ev = "done" /\ history[j].tag \in {"Struct", "TraitImpl"}
        /\ history[j].panicked = FALSE
        /\ IsFetch(history[l - 1]) /\ history[l].mod_name = "__impl1"
        /\ IMPL_BLOCK_NUM = 2

\* The emitted tokens with the numbered module's name erased.
EraseImplNum(tokens) ==
    IF tokens.tag = "HandlersImpl" THEN [tokens EXCEPT !.mod_name = "__impl"] ELSE tokens

\* The transformer an input is routed to (lines 39-42 and 136-139).
ExpectedTag(input) ==
    IF input.tag = "Struct" THEN "Struct"
    ELSE IF input.trait_ = NoTrait THEN "HandlersImpl" ELSE "TraitImpl"

SameInput(a, b) ==
    /\ a.tag = b.tag
    /\ a = b

\* C8: an abort stays local to its construct.  An invocation aborts exactly when its own
\* input is malformed and then emits nothing; every other invocation emits its output,
\* which is the one any other invocation on the same input emits, whatever aborted
\* before or beside it, up to the number of its `__impl<k>` module, and the numbers of
\* two emitted modules differ.
C8_ErrorsStayLocal ==
    /\ \A p \in Procs : Ran(p) =>
          /\ result[p].panicked <=> Malformed(result[p].input)
          /\ result[p].panicked => result[p].expanded.tag = "None"
          /\ ~result[p].panicked => result[p].expanded.tag = ExpectedTag(result[p].input)
    /\ \A p, q \in Procs :
          (Ran(p) /\ Ran(q) /\ SameInput(result[p].input, result[q].input)) =>
              /\ EraseImplNum(result[p].expanded) = EraseImplNum(result[q].expanded)
              /\ result[p].diags = result[q].diags
    /\ \A p, q \in Procs :
          (p # q /\ result[p].expanded.tag = "HandlersImpl"
                 /\ result[q].expanded.tag = "HandlersImpl") =>
              result[p].expanded.mod_name # result[q].expanded.mod_name

\* The same handler impl was transformed twice, in two slots, with an invocation that
\* aborted in between: the two outputs differ in the number of their module only.
C8_Witness ==
    \E p, q \in Procs :
        /\ p # q
        /\ result[p].expanded.tag = "HandlersImpl"
        /\ result[q].expanded.tag = "HandlersImpl"
        /\ result[p].input = result[q].input
        /\ result[p].expanded.mod_name # result[q].expanded.mod_name
        /\ \E i, j, l \in 1..Len(history) :
              /\ i < j /\ j < l
              /\ history[i].ev = "done" /\ history[i].mod_name = result[p].expanded.mod_name
              /\ history[j].ev = "done" /\ history[j].panicked
              /\ history[l].ev = "done" /\ history[l].mod_name = result[q].expanded.mod_name

\* The base name of the type an input is about.
InputName(input) ==
    IF input.tag = "Struct" THEN input.ident
    ELSE input.self_ty.segments[Len(input.self_ty.segments)].ident

\* Slot p has finished an invocation that emitted tokens.
HasOutput(p) == Ran(p) /\ ~result[p].panicked

\* The segment before the last of a path.
Inserted(segments) == segments[Len(segments) - 1]

\* The actor namespace an emitted construct names.
NamespaceOf(tokens) ==
    IF tokens.tag = "Struct" THEN tokens.actor.mod_name
    ELSE IF tokens.tag = "TraitImpl" THEN Inserted(tokens.block.self_ty.segments).ident
    ELSE Inserted(tokens.actor_impl.self_ty.segments).ident

\* C9: every component names the actor namespace of a type T `__TActor`: the module
\* entangle_struct emits (and the Address type it refers to), the segment
\* entangle_trait_impl inserts, and the segment entangle_handlers_impl inserts in the
\* Actor-side self type and in the path it imports, whatever prefix or generic arguments
\* the self type carries; two emitted constructs name the same namespace exactly when
\* they are about the same type name.
C9_ActorNamespaceConsistent ==
    /\ \A p \in Procs : HasOutput(p) =>
          LET tokens == result[p].expanded
          IN  /\ NamespaceOf(tokens) = "__" \o InputName(result[p].input) \o "Actor"
              /\ tokens.tag = "Struct" =>
                    tokens.handle.addr.address_of = <<NamespaceOf(tokens), result[p].input.ident>>
              /\ tokens.tag = "HandlersImpl" =>
                    /\ Inserted(tokens.uses[2]).ident = NamespaceOf(tokens)
                    /\ Inserted(tokens.uses[2]).arguments = NoArguments
                    /\ Inserted(tokens.actor_impl.self_ty.segments).arguments = NoArguments
    /\ \A p, q \in Procs : (HasOutput(p) /\ HasOutput(q)) =>
          (InputName(result[p].input) = InputName(result[q].input)
              <=> NamespaceOf(result[p].expanded) = NamespaceOf(result[q].expanded))

\* The struct Counter and a handler impl of m::Counter<T> were both transformed.
C9_Witness ==
    \E p, q \in Procs :
        /\ HasOutput(p) /\ HasOutput(q)
        /\ result[p].expanded.tag = "Struct"
        /\ result[q].expanded.tag = "HandlersImpl"
        /\ InputName(result[q].input) = result[p].input.ident
        /\ Len(result[q].input.self_ty.segments) = 2
        /\ result[q].input.self_ty.segments[2].arguments = "<T>"
        /\ NamespaceOf(result[q].expanded) = "__CounterActor"

----------------------------------------------------------------------------
\* Properties of one invocation (SpecOne: slot 1, any input of the universe).

\* Depth of the module that declares the struct, the crate root being 0.
ModDepth == 2

\* The depth of the module inside which an item declared with visibility vis in a
\* module at depth `at` can be named (-1: everywhere).  A smaller depth is a wider scope.
ScopeDepth(vis, at) ==
    CASE vis.kind = "Public" -> -1
      [] vis.kind = "Crate" -> 0
      [] vis.kind = "Inherited" -> at
      [] vis.kind = "Restricted" /\ vis.path[1] = "crate" -> Len(vis.path) - 1
      [] vis.kind = "Restricted" /\ vis.path[1] = "super" -> at - 1
      [] OTHER -> at + Len(vis.path) - 1

\* A field declared in the struct's module, emitted inside the actor module one level
\* below it, can still be named wherever it could be named before.
NotNarrower(declared, emitted) ==
    ScopeDepth(emitted, ModDepth + 1) <= ScopeDepth(declared, ModDepth)

StructRan == Ran(1) /\ result[1].input.tag = "Struct"

\* The fields of the emitted Actor declaration are those of the input, in order, with
\* their names and types.
FieldsPreserved ==
    LET declared == result[1].input.fields
        emitted == result[1].expanded.actor.item.fields
    IN  /\ result[1].expanded.tag = "Struct"
        /\ Len(emitted) = Len(declared)
        /\ \A j \in 1..Len(declared) :
              emitted[j].ident = declared[j].ident /\ emitted[j].ty = declared[j].ty

\* C3 as stated: the Actor declaration keeps the fields, their order, names and types;
\* no field's scope gets narrower; a scope that already reaches the enclosing scope and
\* beyond (pub, pub(crate)) is left unchanged.
C3_Original ==
    StructRan =>
        /\ FieldsPreserved
        /\ \A j \in 1..Len(result[1].input.fields) :
              LET declared == result[1].input.fields[j].vis
                  emitted == result[1].expanded.actor.item.fields[j].vis
              IN  /\ NotNarrower(declared, emitted)
                  /\ ScopeDepth(declared, ModDepth) < ModDepth => emitted = declared

\* C3 amended: the Actor declaration keeps the fields, their order, names and types; a
\* field's scope is left as declared when it is unrestricted (pub, crate) and is
\* pub(super) otherwise, which reaches the struct's own module: not narrower than
\* declared for a private or self-rooted scope, narrower for pub(super), pub(crate) or
\* pub(in path).
C3_FieldsKeptScopesPubSuper ==
    StructRan =>
        /\ FieldsPreserved
        /\ \A j \in 1..Len(result[1].input.fields) :
              LET declared == result[1].input.fields[j].vis
                  emitted == result[1].expanded.actor.item.fields[j].vis
              IN  /\ emitted = IF declared.kind \in {"Public", "Crate"}
                               THEN declared ELSE PubSuper
                  /\ ScopeDepth(emitted, ModDepth + 1) <= ModDepth
                  /\ (declared.kind \in {"Public", "Crate", "Inherited"}
                        \/ declared.path[1] = "self") => NotNarrower(declared, emitted)
                  /\ (declared.kind = "Restricted" /\ declared.path[1] # "self")
                        => ~NotNarrower(declared, emitted)

\* A struct with a pub(crate) field followed by a private one was transformed.
C3_Witness ==
    /\ StructRan
    /\ Len(result[1].input.fields) = 2
    /\ result[1].input.fields[1] = Field(VisRestricted(FALSE, <<"crate">>), "label", "String")
    /\ result[1].input.fields[2] = Field(VisInherited, "count", "i64")
    /\ result[1].expanded.actor.item.fields[1].vis = PubSuper
    /\ result[1].expanded.actor.item.fields[2].vis = PubSuper

ImplRan == Ran(1) /\ result[1].input.tag = "Impl"

\* C4: an impl block, with or without a trait, whose self type is no path gets an error
\* reported at the block, and its transformation aborts: nothing is emitted.
C4_NonPathSelfTypeAborts ==
    (ImplRan /\ result[1].input.self_ty.kind # "Path") =>
        /\ \E j \in 1..Len(result[1].diags) :
              result[1].diags[j].level = "error" /\ result[1].diags[j].at = "impl_block"
        /\ result[1].panicked
        /\ result[1].expanded.tag = "None"

\* A trait impl of a tuple type, with two items, was handed to entangle.
C4_Witness ==
    /\ ImplRan
    /\ result[1].input.self_ty.kind = "Tuple"
    /\ result[1].input.trait_ # NoTrait
    /\ Len(result[1].input.items) = 2
    /\ result[1].panicked

\* A handler impl block went through entangle_handlers_impl and emitted its module.
HandlersEmitted == ImplRan /\ result[1].expanded.tag = "HandlersImpl"

\* C5: both emitted impls hold as many items as the input, in its order; the Actor-side
\* items keep kind, name, signature and body; the Handle-side items are the input's
\* items unchanged, except the methods, which are exactly the items rewritten by
\* transform_method.
C5_ItemsMirrored ==
    HandlersEmitted =>
        LET items == result[1].input.items
            actor_items == result[1].expanded.actor_impl.items
            handle_items == result[1].expanded.handle_impl.items
        IN  /\ Len(actor_items) = Len(items)
            /\ Len(handle_items) = Len(items)
            /\ \A j \in 1..Len(items) :
                  /\ actor_items[j].kind = items[j].kind
                  /\ actor_items[j].ident = items[j].ident
                  /\ actor_items[j].sig = items[j].sig
                  /\ actor_items[j].body = items[j].body
                  /\ items[j].kind # "Method" => handle_items[j] = items[j]
                  /\ items[j].kind = "Method" =>
                        /\ handle_items[j] = transform_method(result[1].input, items[j])
                        /\ handle_items[j] # items[j]
                  /\ handle_items[j].body = "forward" => items[j].kind = "Method"

\* A block with a constant followed by a method was mirrored.
C5_Witness ==
    /\ HandlersEmitted
    /\ Len(result[1].input.items) = 2
    /\ result[1].input.items[1].kind = "Const"
    /\ result[1].input.items[2].kind = "Method"
    /\ result[1].expanded.handle_impl.items[2].body = "forward"

\* C6 as stated: the scope of every method in the Actor-side impl is the declared one.
C6_Original ==
    HandlersEmitted =>
        \A j \in 1..Len(result[1].input.items) :
            result[1].input.items[j].kind = "Method" =>
                result[1].expanded.actor_impl.items[j].vis = result[1].input.items[j].vis

\* C6 amended: the scope of a method in the Actor-side impl is the declared one when
\* that is unrestricted (pub, crate) and pub(super) for every other declared scope
\* (private, pub(self), pub(super), pub(crate), pub(in path)); name, signature and
\* body are the declared ones.
C6_ActorMethodScopeNormalized ==
    HandlersEmitted =>
        \A j \in 1..Len(result[1].input.items) :
            LET declared == result[1].input.items[j]
                emitted == result[1].expanded.actor_impl.items[j]
            IN  declared.kind = "Method" =>
                    /\ emitted.vis = IF declared.vis.kind \in {"Public", "Crate"}
                                     THEN declared.vis ELSE PubSuper
                    /\ emitted = [declared EXCEPT !.vis = emitted.vis]

\* A private method came out pub(super) in the Actor-side impl.
C6_Witness ==
    /\ HandlersEmitted
    /\ Len(result[1].input.items) >= 1
    /\ result[1].input.items[1].kind = "Method"
    /\ result[1].input.items[1].vis = VisInherited
    /\ result[1].expanded.actor_impl.items[1].vis = PubSuper

\* A trait impl block with a path self type went through entangle_trait_impl.
TraitRan ==
    ImplRan /\ result[1].input.trait_ # NoTrait /\ result[1].input.self_ty.kind = "Path"

\* C7: a trait impl of a type whose path has k segments is emitted with a path of k+1
\* segments: the first k-1 unchanged, then `__TypeActor` without arguments, then the
\* original last segment with its arguments; the trait, the generics, the attributes
\* and the items are the input's; nothing else is emitted (no Handle-side impl) and the
\* IMPL_BLOCK_NUM is not consumed.
C7_TraitImplSelfTypeRewritten ==
    TraitRan =>
        LET input == result[1].input
            segments == input.self_ty.segments
            k == Len(segments)
            tokens == result[1].expanded
            out == tokens.block.self_ty.segments
        IN  /\ ~result[1].panicked
            /\ tokens.tag = "TraitImpl"
            /\ DOMAIN tokens = {"tag", "block"}
            /\ Len(out) = k + 1
            /\ \A j \in 1..(k - 1) : out[j] = segments[j]
            /\ out[k] = [ident |-> "__" \o segments[k].ident \o "Actor", arguments |-> ""]
            /\ out[k + 1] = segments[k]
            /\ tokens.block = [input EXCEPT !.self_ty.segments = out]
            /\ IMPL_BLOCK_NUM = 0
            /\ Len(Fetches) = 0

\* `impl Actor for m::Gauge<T>` with a private method was rewritten.
C7_Witness ==
    /\ TraitRan
    /\ Len(result[1].input.self_ty.segments) = 2
    /\ result[1].input.self_ty.segments[2] = Segment("Gauge", "<T>")
    /\ Len(result[1].input.items) = 1
    /\ result[1].input.items[1].kind = "Method"
    /\ result[1].expanded.block.self_ty.segments[2].ident = "__GaugeActor"
    /\ result[1].expanded.block.items[1].body = "self.count"

\* The visibilities set_visibility_min_pub_super was called on, in order: the fields of
\* a struct, the Const, Method and Type items of a handler impl that reached line 214.
IsNormalizedKind(item) == item.kind \in {"Const", "Method", "Type"}

NormalizerInputs(input) ==
    IF input.tag = "Struct" THEN [j \in 1..Len(input.fields) |-> input.fields[j].vis]
    ELSE IF input.trait_ = NoTrait /\ input.self_ty.kind = "Path"
         THEN LET normalized == SelectSeq(input.items, IsNormalizedKind)
              IN  [j \in 1..Len(normalized) |-> normalized[j].vis]
         ELSE <<>>

\* The visibilities it left, where they were emitted.
NormalizerOutputs(tokens) ==
    IF tokens.tag = "Struct"
    THEN [j \in 1..Len(tokens.actor.item.fields) |-> tokens.actor.item.fields[j].vis]
    ELSE IF tokens.tag = "HandlersImpl"
         THEN LET normalized == SelectSeq(tokens.actor_impl.items, IsNormalizedKind)
              IN  [j \in 1..Len(normalized) |-> normalized[j].vis]
         ELSE <<>>

IsWarning(d) == d.level = "warning"

\* What C10 says besides the condition of the warning: warnings abort nothing (the
\* invocation aborts exactly when its input is malformed, and emits its tokens
\* otherwise) and every visibility left is the declared unrestricted one or pub(super).
WarningsAreAdvisory ==
    /\ result[1].panicked <=> Malformed(result[1].input)
    /\ ~result[1].panicked => result[1].expanded.tag = ExpectedTag(result[1].input)
    /\ ~result[1].panicked =>
          LET declared == NormalizerInputs(result[1].input)
              left == NormalizerOutputs(result[1].expanded)
          IN  /\ Len(left) = Len(declared)
              /\ \A j \in 1..Len(left) :
                    \/ left[j] = PubSuper
                    \/ left[j] = declared[j] /\ declared[j].kind \in {"Public", "Crate"}

\* C10 as stated: one warning for each visibility that is restricted to a path other
\* than `self`, none for any other; and the warnings are advisory.
C10_Original ==
    Ran(1) =>
        /\ Len(SelectSeq(result[1].diags, IsWarning)) =
              Cardinality({j \in 1..Len(NormalizerInputs(result[1].input)) :
                  LET vis == NormalizerInputs(result[1].input)[j]
                  IN  vis.kind = "Restricted" /\ vis.path # <<"self">>})
        /\ WarningsAreAdvisory

\* C10 amended: one warning for each visibility that is restricted to a path whose
\* first segment is not `self` (so none for `pub(in self::a)` either), none for any
\* other; and the warnings are advisory.
C10_WarnsUnlessSelfRooted ==
    Ran(1) =>
        /\ Len(SelectSeq(result[1].diags, IsWarning)) =
              Cardinality({j \in 1..Len(NormalizerInputs(result[1].input)) :
                  LET vis == NormalizerInputs(result[1].input)[j]
                  IN  vis.kind = "Restricted" /\ vis.path[1] # "self"})
        /\ WarningsAreAdvisory

\* A handler impl with a pub(crate) constant and a pub(in self::a) method was emitted
\* with one warning.
C10_Witness ==
    /\ HandlersEmitted
    /\ Len(result[1].input.items) = 2
    /\ result[1].input.items[1].kind = "Const"
    /\ result[1].input.items[1].vis = VisRestricted(FALSE, <<"crate">>)
    /\ result[1].input.items[2].kind = "Method"
    /\ result[1].input.items[2].vis = VisRestricted(TRUE, <<"self", "a">>)
    /\ Len(result[1].diags) = 1
    /\ result[1].diags[1].level = "warning"
    /\ result[1].expanded.actor_impl.items[2].vis = PubSuper

====
